---- MODULE Spec2Model ----
(***************************************************************************)
(* WiFi temperature broadcast node (rswift/wifi-temperature-broadcast).    *)
(*                                                                         *)
(* The node runs setup() once (SYN/ACK handshake with Roastmaster) and     *)
(* then loop() forever: a command datagram starts the acquisition of probe *)
(* readings into a rolling buffer, another one drains the buffer, averages *)
(* it and broadcasts the average to one or two destinations.               *)
(*                                                                         *)
(* Temperatures are integers (degrees Celsius).  A double that may be NaN  *)
(* is a record [nan, val].  The average is kept as the exact pair          *)
(* (sum, endOfIndex) the code divides, and as the two-decimal value the    *)
(* payload carries.                                                        *)
(***************************************************************************)
EXTENDS Integers, Sequences, FiniteSets, TLC

\* ------------------------------------------------------------------ bounds
\* Capacity of the rolling buffer.  The source computes 20; the model keeps
\* the buffer logic and scales the capacity so that it fills and rolls over.
ROLLING_AVERAGE_COUNT == 3
\* Successful pushes the sensor delivers between two buffer resets.
MaxPushes == 4
\* Failed sensor reads over a run (probeReadingErrorCount is unsigned long).
MaxErrors == 1
\* Largest value rdpEpoch reaches (int, incremented per protocol message).
MaxEpoch == 3
\* millis() advances in steps of ClockStep ms, up to MaxMillis ms.
ClockStep == 1000
MaxMillis == 6000
\* Control messages the trigger node's loop() transmits.
MaxTransmissions == 3

\* --------------------------------------------------------- program constants
rdpMaxAckListenAttempts == 10
InitialConnectDelay == 5
InitialEpoch == 1
RDPEventType_SYN == 1
RDPEventType_ACK == 2
RDPEventType_Temperature == 3
RDPMetaType_BTTemp == 1000

\* ------------------------------------------------------------------ values
NaN == [nan |-> TRUE, val |-> 0]
Num(v) == [nan |-> FALSE, val |-> v]
isnan(x) == x.nan

\* What lineariseTemperature returns for the raw readings of one tick.
Samples == {20, 22, 24}
\* thermocouple.readInternal() / readCelsius(): a value or NaN.
InternalReadings == {NaN, Num(25)}
CelsiusReadings == {NaN, Num(23)}

\* Datagrams the handshake may receive: unparseable bytes, or a JSON object
\* whose RPPayload[0].RPEventType reads as the given unsigned int (0 when
\* the key is absent).
NoPacket == [size |-> 0, json |-> FALSE, RPEventType |-> 0]
Malformed == [size |-> 1, json |-> FALSE, RPEventType |-> 0]
RdpMessage(e) == [size |-> 1, json |-> TRUE, RPEventType |-> e]
HandshakeDatagrams ==
    {Malformed} \cup {RdpMessage(e) : e \in 0 .. RDPEventType_Temperature}

UnsetAddress == "0.0.0.0"
PeerAddress == "192.168.1.20"

\* Command & control datagrams: none, bytes that do not parse as a JSON
\* object (whatever text they hold), or a JSON object with the given
\* "command" string ("" when the key is absent).
NoCommand == [size |-> 0, json |-> FALSE, command |-> ""]
CncDatagrams ==
    { [size |-> 1, json |-> FALSE, command |-> "readProbes"] } \cup
    { [size |-> 1, json |-> TRUE, command |-> c] :
        c \in {"readProbes", "broadcastReadings", "reboot", ""} }

NoDatagram == [kind |-> "none"]

\* What the network does during one drain: WiFi.status() == WL_CONNECTED, and
\* whether beginPacket() / endPacket() return 1 on each UDP object.
\* endPacket() does not succeed on a packet beginPacket() refused, and with
\* the network down no packet is begun.
NetOutcomes ==
    { net \in [ wifi : BOOLEAN, brdBegin : BOOLEAN, brdEnd : BOOLEAN,
                rdpBegin : BOOLEAN, rdpEnd : BOOLEAN ] :
        /\ net.brdEnd => net.brdBegin
        /\ net.rdpEnd => net.rdpBegin
        /\ net.brdBegin => net.wifi
        /\ net.rdpBegin => net.wifi }
NoNet ==
    [ wifi |-> FALSE, brdBegin |-> FALSE, brdEnd |-> FALSE,
      rdpBegin |-> FALSE, rdpEnd |-> FALSE ]
AllSucceed ==
    [ wifi |-> TRUE, brdBegin |-> TRUE, brdEnd |-> TRUE,
      rdpBegin |-> TRUE, rdpEnd |-> TRUE ]

VARIABLES
    pc,                      \* "setup", "listen", "ready" (setup done), "loop"
    revision,                \* which revision of broadcastReadings is built in
    debugLogging,            \* config.debugEnabled, read from EEPROM by setup()
    rdpEpoch, gotRDPServer, rdpIPAddress,
    connectDelay, rdpAckRetries,
    shouldReadProbes, shouldBroadcast, haveBroadcastSinceRead,
    celsiusRollingAverage, rollingAveragePosition, indexRolledOver,
    minimumInternal, maximumInternal,
    probeReadingError, probeReadingErrorCount,
    \* observations of the run (not program state)
    listenAttempts,          \* rdpUdp.parsePacket() calls of the handshake
    delays,                  \* the delay(connectDelay) calls of the handshake
    lastPacket,              \* the datagram the handshake read, if any
    pushesSinceReset,        \* successful pushes since the buffer was reset
    cycleRequested,          \* a broadcastReadings command came since the last
                             \* readProbes command
    cycleBroadcasts,         \* broadcastReadings() calls since that command
    tick,                    \* what the last loop() iteration did
    cncPacket,               \* the datagram the command parser read last
                             \* (a local of the parser: kept only by the
                             \* specification that observes it)
    \* the hardware-edge variant
    millis,                  \* millis()
    pin,                     \* level of SWITCH_PIN
    attached,                \* the handler attached to SWITCH_PIN, if any
    detachedAt,
    epc,                     \* position of loop() between two statements
    toAttach,                \* the handler loop() has decided to attach
    everDetached,            \* a handler has run (detachedAt is a real time)
    outstanding,             \* handler runs since loop() last started an
                             \* iteration
    cycleOpen,               \* a handler has run and loop() has not begun
                             \* a broadcast branch since
    readOwed,                \* switchActivated() has run and loop() has not
                             \* called readProbes() since
    internalsRead,           \* the cold-junction temperatures of the
                             \* successful reads so far
    pushed,                  \* the samples stored since the buffer was
                             \* last reset, oldest first
    \* the trigger node (HallEffectBroadcast)
    hpc,                     \* "setup", "attached" (interrupt attached,
                             \* setup() still running), "loop"
    switchState,             \* volatile bool switchState
    switchPinLevel,          \* level of switchPin
    interruptHandler,        \* the handler attached to switchPin, if any
    everTriggered,           \* an edge interrupt has run
    transmitted,             \* the control messages handed to
                             \* transmitControlMessage, oldest first
    cycleSamples,            \* the samples stored since the readProbes
                             \* command that started the current
                             \* acquisition cycle, oldest first
    totalVoltage,            \* lineariseTemperature: thermocoupleVoltage +
                             \* internalVoltage, in microvolts
    correctedTemperature     \* lineariseTemperature: what it returns

vars == << pc, revision, debugLogging, rdpEpoch, gotRDPServer, rdpIPAddress, connectDelay,
           rdpAckRetries, shouldReadProbes, shouldBroadcast,
           haveBroadcastSinceRead, celsiusRollingAverage,
           rollingAveragePosition, indexRolledOver, minimumInternal,
           maximumInternal, probeReadingError, probeReadingErrorCount,
           listenAttempts, delays, lastPacket, pushesSinceReset,
           cycleRequested, cycleBroadcasts, tick, cncPacket, millis, pin,
           attached, detachedAt, epc, toAttach, everDetached, outstanding,
           cycleOpen, readOwed, internalsRead, pushed, cycleSamples,
           hpc, switchState, switchPinLevel, interruptHandler,
           everTriggered, transmitted, totalVoltage,
           correctedTemperature >>
lineariseVars == << totalVoltage, correctedTemperature >>
hallVars == << hpc, switchState, switchPinLevel, interruptHandler,
              everTriggered, transmitted >>

handshakeVars == << rdpEpoch, gotRDPServer, rdpIPAddress, connectDelay,
                    rdpAckRetries, listenAttempts, delays, lastPacket >>
edgeVars == << millis, pin, attached, detachedAt, epc, toAttach,
              everDetached, outstanding, cycleOpen, readOwed >>
flagVars == << shouldReadProbes, shouldBroadcast, haveBroadcastSinceRead,
              cycleRequested, cycleBroadcasts >>
bufferVars == << celsiusRollingAverage, rollingAveragePosition,
                 indexRolledOver, minimumInternal, maximumInternal,
                 probeReadingError, probeReadingErrorCount, pushesSinceReset >>

\* double minimumInternal = DBL_MAX; double maximumInternal = DBL_MIN.
\* DBL_MIN is the smallest positive double: above 0, below every positive
\* temperature the model can represent.
DBL_MAX == 2147483647
DBL_MIN == 0

\* The tick record of an iteration that neither drained nor read.
IdleTick ==
    [ called |-> FALSE, refused |-> FALSE, endOfIndex |-> 0, sum |-> 0,
      primary |-> NoDatagram, secondary |-> NoDatagram, errorFlashes |-> 0,
      read |-> "none", index |-> 0 ]

\* The values the variables of the hardware-edge variant keep in the
\* command variant, which has no switch.
EdgeIdle ==
    /\ millis = 0 /\ pin = 0 /\ attached = "none" /\ detachedAt = 0
    /\ epc = "none" /\ toAttach = "none"
    /\ everDetached = FALSE /\ outstanding = 0 /\ cycleOpen = FALSE
    /\ readOwed = FALSE

\* The values the variables of the trigger node keep while the broadcaster
\* is the program observed.
HallIdle ==
    /\ hpc = "none" /\ switchState = FALSE /\ switchPinLevel = 0
    /\ interruptHandler = "none" /\ everTriggered = FALSE
    /\ transmitted = << >>

\* lineariseTemperature is not running.
NotComputed == [nan |-> FALSE, d |-> "none"]
LineariseIdle == totalVoltage = 0 /\ correctedTemperature = NotComputed

Init ==
    /\ pc = "setup"
    /\ revision \in {"independent", "coupled"}
    /\ debugLogging \in BOOLEAN
    /\ rdpEpoch = InitialEpoch
    /\ gotRDPServer = FALSE
    /\ rdpIPAddress = UnsetAddress
    /\ connectDelay = 0
    /\ rdpAckRetries = 0
    /\ shouldReadProbes = FALSE
    /\ shouldBroadcast = FALSE
    /\ haveBroadcastSinceRead = FALSE
    /\ celsiusRollingAverage = [i \in 0 .. ROLLING_AVERAGE_COUNT - 1 |-> 0]
    /\ rollingAveragePosition = 0
    /\ indexRolledOver = FALSE
    /\ minimumInternal = DBL_MAX
    /\ maximumInternal = DBL_MIN
    /\ probeReadingError = FALSE
    /\ probeReadingErrorCount = 0
    /\ listenAttempts = 0
    /\ delays = << >>
    /\ lastPacket = NoPacket
    /\ pushesSinceReset = 0
    /\ cycleRequested = FALSE
    /\ cycleBroadcasts = 0
    /\ tick = IdleTick
    /\ cncPacket = NoCommand
    /\ internalsRead = {}
    /\ pushed = << >>
    /\ cycleSamples = << >>
    /\ HallIdle
    /\ LineariseIdle
    /\ EdgeIdle

\* ---------------------------------------------------------------- setup()
\* The SYN carries rdpEpoch++ and is sent to the RDP multicast address; the
\* listen loop then starts with connectDelay = 5 and rdpAckRetries = 0.
SendSYN ==
    /\ UNCHANGED << cncPacket, edgeVars, hallVars, internalsRead, pushed, cycleSamples,
                    lineariseVars >>
    /\ pc = "setup"
    /\ rdpEpoch' = rdpEpoch + 1
    /\ connectDelay' = InitialConnectDelay
    /\ rdpAckRetries' = 0
    /\ pc' = "listen"
    /\ UNCHANGED << revision, debugLogging, gotRDPServer, rdpIPAddress, listenAttempts,
                    delays, lastPacket, tick >>
    /\ UNCHANGED flagVars
    /\ UNCHANGED bufferVars

\* Mutant of IsAck: any datagram that parses counts as an acknowledge.
IsAck_AnyJson(d) == d.json

\* if (rdpAckJsonResponse.success()) { ... == (int)RDPEventType_ACK ... }
IsAck(d) == d.json /\ d.RPEventType = RDPEventType_ACK

\* One iteration of while (rdpAckRetries <= rdpMaxAckListenAttempts) in which
\* parsePacket() returned a datagram: the peer address is taken, the datagram
\* parsed, and the loop left ("break; // all done :)").
ListenReceive ==
    /\ UNCHANGED << cncPacket, edgeVars, hallVars, internalsRead, pushed, cycleSamples,
                    lineariseVars >>
    /\ pc = "listen"
    /\ rdpAckRetries <= rdpMaxAckListenAttempts
    /\ \E d \in HandshakeDatagrams :
         /\ lastPacket' = d
         /\ rdpIPAddress' = PeerAddress
         /\ gotRDPServer' = IF IsAck(d) THEN TRUE ELSE gotRDPServer
    /\ listenAttempts' = listenAttempts + 1
    /\ pc' = "ready"
    /\ UNCHANGED << revision, debugLogging, rdpEpoch, connectDelay, rdpAckRetries, delays,
                    tick >>
    /\ UNCHANGED flagVars
    /\ UNCHANGED bufferVars

\* One iteration in which parsePacket() returned 0: wait, double the delay,
\* count the retry.
ListenTimeout ==
    /\ UNCHANGED << cncPacket, edgeVars, hallVars, internalsRead, pushed, cycleSamples,
                    lineariseVars >>
    /\ pc = "listen"
    /\ rdpAckRetries <= rdpMaxAckListenAttempts
    /\ listenAttempts' = listenAttempts + 1
    /\ delays' = Append(delays, connectDelay)
    /\ connectDelay' = connectDelay + connectDelay
    /\ rdpAckRetries' = rdpAckRetries + 1
    /\ UNCHANGED << pc, revision, debugLogging, rdpEpoch, gotRDPServer, rdpIPAddress,
                    lastPacket, tick >>
    /\ UNCHANGED flagVars
    /\ UNCHANGED bufferVars

\* Mutant of ListenExhausted: the listen loop starts over.
ListenExhausted_StartsOver ==
    /\ UNCHANGED << cncPacket, edgeVars, hallVars, internalsRead, pushed, cycleSamples,
                    lineariseVars >>
    /\ pc = "listen"
    /\ ~(rdpAckRetries <= rdpMaxAckListenAttempts)
    /\ connectDelay' = InitialConnectDelay
    /\ rdpAckRetries' = 0
    /\ listenAttempts' = 0
    /\ delays' = << >>
    /\ UNCHANGED << pc, revision, debugLogging, rdpEpoch, gotRDPServer,
                    rdpIPAddress, lastPacket, tick >>
    /\ UNCHANGED flagVars
    /\ UNCHANGED bufferVars

\* The while condition fails: setup() ends without a datagram.
ListenExhausted ==
    /\ UNCHANGED << cncPacket, edgeVars, hallVars, internalsRead, pushed, cycleSamples,
                    lineariseVars >>
    /\ pc = "listen"
    /\ ~(rdpAckRetries <= rdpMaxAckListenAttempts)
    /\ pc' = "ready"
    /\ UNCHANGED << revision, debugLogging, tick >>
    /\ UNCHANGED handshakeVars
    /\ UNCHANGED flagVars
    /\ UNCHANGED bufferVars

\* setup() returns: its locals go out of scope and loop() starts.  The
\* observations of the handshake end here too.
StartLoop ==
    /\ UNCHANGED << cncPacket, edgeVars, hallVars, internalsRead, pushed, cycleSamples,
                    lineariseVars >>
    /\ pc = "ready"
    /\ pc' = "loop"
    /\ connectDelay' = 0
    /\ rdpAckRetries' = 0
    /\ listenAttempts' = 0
    /\ delays' = << >>
    /\ lastPacket' = NoPacket
    /\ UNCHANGED << revision, debugLogging, rdpEpoch, gotRDPServer, rdpIPAddress, tick >>
    /\ UNCHANGED flagVars
    /\ UNCHANGED bufferVars

\* ----------------------------------------------------------------- loop()
\* The globals loop() and its callees work on, as one record.
Globals ==
    [ shouldReadProbes |-> shouldReadProbes,
      shouldBroadcast |-> shouldBroadcast,
      haveBroadcastSinceRead |-> haveBroadcastSinceRead,
      celsiusRollingAverage |-> celsiusRollingAverage,
      rollingAveragePosition |-> rollingAveragePosition,
      indexRolledOver |-> indexRolledOver,
      minimumInternal |-> minimumInternal,
      maximumInternal |-> maximumInternal,
      probeReadingError |-> probeReadingError,
      probeReadingErrorCount |-> probeReadingErrorCount,
      rdpEpoch |-> rdpEpoch,
      gotRDPServer |-> gotRDPServer,
      debugLogging |-> debugLogging,
      revision |-> revision,
      pushesSinceReset |-> pushesSinceReset,
      tick |-> IdleTick ]

\* Mutant of cncCommand: the text is taken although the parse failed.
cncCommand_IgnoresParseFailure(d) == d.command

\* String cncCommand = cncJson["command"].as<String>();
cncCommand(d) == IF d.json THEN d.command ELSE ""

checkForCommandAndControlMessage(g, d) ==
    IF d.size > 0
    THEN IF cncCommand(d) = "readProbes"
         THEN [g EXCEPT !.shouldReadProbes = TRUE,
                        !.shouldBroadcast = FALSE,
                        !.haveBroadcastSinceRead = FALSE]
         ELSE IF cncCommand(d) = "broadcastReadings"
         THEN [g EXCEPT !.shouldReadProbes = FALSE,
                        !.shouldBroadcast = TRUE]
         ELSE g
    ELSE g

\* Mutant of ReadFailed: only the internal reading is tested.
ReadFailed_InternalOnly(r) == isnan(r.internal)

\* if (isnan(internal) || isnan(celsius)) { error; count; return; }
ReadFailed(r) == isnan(r.internal) \/ isnan(r.celsius)

\* Mutants of WrapIndex: the position is never wrapped; the position is
\* wrapped one push late.
WrapIndex_Never(g) == g
WrapIndex_Late(g) ==
    IF g.rollingAveragePosition > ROLLING_AVERAGE_COUNT
    THEN [g EXCEPT !.rollingAveragePosition = 0, !.indexRolledOver = TRUE]
    ELSE g

\* Mutant of WrapIndex: the flag is set and the position is left.
WrapIndex_KeepsPosition(g) ==
    IF g.rollingAveragePosition >= ROLLING_AVERAGE_COUNT
    THEN [g EXCEPT !.indexRolledOver = TRUE]
    ELSE g

\* if (rollingAveragePosition >= ROLLING_AVERAGE_COUNT) { position = 0;
\* indexRolledOver = true; }
WrapIndex(g) ==
    IF g.rollingAveragePosition >= ROLLING_AVERAGE_COUNT
    THEN [g EXCEPT !.rollingAveragePosition = 0, !.indexRolledOver = TRUE]
    ELSE g

\* celsiusRollingAverage[rollingAveragePosition] = lineariseTemperature(..);
\* rollingAveragePosition++;
StoreSample(g, sample) ==
    [g EXCEPT !.celsiusRollingAverage[g.rollingAveragePosition] = sample,
              !.rollingAveragePosition = @ + 1,
              !.pushesSinceReset = @ + 1,
              !.tick = [@ EXCEPT !.read = "ok",
                                 !.index = g.rollingAveragePosition]]

\* track minimum and maximum
TrackInternal(g, internal) ==
    [g EXCEPT !.minimumInternal = IF internal < @ THEN internal ELSE @,
              !.maximumInternal = IF internal > @ THEN internal ELSE @]

\* r: the raw readings of the thermocouple and the value lineariseTemperature
\* returns for them.
readProbes(g, r) ==
    IF ReadFailed(r)
    THEN [g EXCEPT !.probeReadingError = TRUE,
                   !.probeReadingErrorCount = @ + 1,
                   !.tick = [@ EXCEPT !.read = "failed"]]
    ELSE StoreSample(
             WrapIndex(TrackInternal([g EXCEPT !.probeReadingError = FALSE],
                                     r.internal.val)),
             r.linearised)

\* ------------------------------------------------------ broadcastReadings()
\* Mutant of RefuseDrain: any failed read so far refuses the drain.
RefuseDrain_AnyErrorSoFar(g) ==
    \/ (g.rollingAveragePosition = 0 /\ ~g.indexRolledOver)
    \/ g.probeReadingErrorCount > 0

\* Mutant of RefuseDrain: the gate tests the sensor error alone.
RefuseDrain_ErrorOnly(g) == g.probeReadingError

\* if ((rollingAveragePosition == 0 && !indexRolledOver) || probeReadingError)
RefuseDrain(g) ==
    (g.rollingAveragePosition = 0 /\ ~g.indexRolledOver) \/ g.probeReadingError

\* Mutant of EndOfIndex: the rollover flag is ignored.
EndOfIndex_IgnoresRollover(g) == g.rollingAveragePosition

\* int endOfIndex = rollingAveragePosition;
\* if (indexRolledOver) endOfIndex = ROLLING_AVERAGE_COUNT;
EndOfIndex(g) ==
    IF g.indexRolledOver THEN ROLLING_AVERAGE_COUNT
    ELSE g.rollingAveragePosition

\* for (int i = 0; i < endOfIndex; i++) broadcastTemperatureC += buffer[i];
RECURSIVE SumSlots(_, _)
SumSlots(buffer, n) ==
    IF n = 0 THEN 0 ELSE SumSlots(buffer, n - 1) + buffer[n - 1]

\* double_with_n_digits(sum / endOfIndex, 2): the quotient printed with two
\* decimals, in hundredths of a degree (rounded half up); 0.0 / 0 is NaN.
TwoDigits(sum, n) ==
    IF n = 0 THEN NaN ELSE Num((200 * sum + n) \div (2 * n))

\* The self-describing payload; debugData (built before the buffer is reset)
\* only when debugLogging.
formatBroadcastMessage(g, sum, n) ==
    [ kind |-> "broadcast", reading |-> TwoDigits(sum, n), scale |-> "C",
      debugData |->
          IF g.debugLogging
          THEN << g.minimumInternal, g.maximumInternal, g.indexRolledOver,
                  g.rollingAveragePosition, g.probeReadingErrorCount >>
          ELSE << >> ]

\* The fixed-schema payload: its epoch is rdpEpoch++ (the caller adds one).
formatRoastmasterDatagramProtocolMessage(g, sum, n) ==
    [ kind |-> "rdp", RPEpoch |-> g.rdpEpoch, RPChannel |-> 1,
      RPEventType |-> RDPEventType_Temperature,
      RPValue |-> TwoDigits(sum, n), RPMetaType |-> RDPMetaType_BTTemp ]

\* Revision with one if per destination.  The primary packet is sent when
\* its beginPacket and endPacket return 1:
\* if (brdUdp.beginPacket(...) == 1) { write; endPacket } else error
IndependentPrimarySent(g, net) == net.brdBegin /\ net.brdEnd
\* if (gotRDPServer && rdpUdp.beginPacket(...) == 1) { write; endPacket }
IndependentSecondarySent(g, net) ==
    g.gotRDPServer /\ net.rdpBegin /\ net.rdpEnd
\* flashLED(errorLed, 3) calls; the one for the secondary setup sits inside
\* if (debugLogging && gotRDPServer).
IndependentErrorFlashes(g, net) ==
    (IF net.brdBegin /\ net.brdEnd THEN 0 ELSE 1)
    + (IF g.gotRDPServer /\ net.rdpBegin /\ ~net.rdpEnd THEN 1 ELSE 0)
    + (IF g.gotRDPServer /\ ~net.rdpBegin /\ g.debugLogging THEN 1 ELSE 0)

\* Revision with one if for both destinations:
\* if (udp.beginPacket(...) == 1 && (gotRDPServer && rdpUdp.beginPacket(...) == 1))
\*   { write; write; endPacket; endPacket } else error
CoupledSetup(g, net) == net.brdBegin /\ (g.gotRDPServer /\ net.rdpBegin)
CoupledPrimarySent(g, net) == CoupledSetup(g, net) /\ net.brdEnd
CoupledSecondarySent(g, net) == CoupledSetup(g, net) /\ net.rdpEnd
CoupledErrorFlashes(g, net) ==
    IF CoupledSetup(g, net) /\ net.brdEnd /\ net.rdpEnd THEN 0 ELSE 1

\* if (WiFi.status() == WL_CONNECTED) { ... } else flashLED(errorLed, 5)
PrimarySent(g, net) ==
    /\ net.wifi
    /\ IF g.revision = "independent" THEN IndependentPrimarySent(g, net)
       ELSE CoupledPrimarySent(g, net)

SecondarySent(g, net) ==
    /\ net.wifi
    /\ IF g.revision = "independent" THEN IndependentSecondarySent(g, net)
       ELSE CoupledSecondarySent(g, net)

ErrorFlashes(g, net) ==
    IF ~net.wifi THEN 1
    ELSE IF g.revision = "independent" THEN IndependentErrorFlashes(g, net)
    ELSE CoupledErrorFlashes(g, net)

\* Mutant of ResetBuffer: indexRolledOver is not reset.
ResetBuffer_KeepsRollover(g) ==
    [g EXCEPT !.rollingAveragePosition = 0, !.pushesSinceReset = 0]

\* Mutant of ResetBuffer: the position is not reset.
ResetBuffer_KeepsPosition(g) ==
    [g EXCEPT !.indexRolledOver = FALSE, !.pushesSinceReset = 0]

\* reset the fields for readProbes()
ResetBuffer(g) ==
    [g EXCEPT !.rollingAveragePosition = 0, !.indexRolledOver = FALSE,
              !.pushesSinceReset = 0]

\* The drain that passed the gate: both payloads are formatted (rdpEpoch++),
\* then transmitted as the network allows.
Transmit(g, net, n, sum) ==
    [g EXCEPT
       !.rdpEpoch = @ + 1,
       !.tick = [@ EXCEPT
           !.called = TRUE,
           !.endOfIndex = n,
           !.sum = sum,
           !.primary =
               IF PrimarySent(g, net)
               THEN formatBroadcastMessage(g, sum, n) ELSE NoDatagram,
           !.secondary =
               IF SecondarySent(g, net)
               THEN formatRoastmasterDatagramProtocolMessage(g, sum, n)
               ELSE NoDatagram,
           !.errorFlashes = ErrorFlashes(g, net)]]

\* Mutant of broadcastReadings: the buffer is reset only when the primary
\* datagram went out.
broadcastReadings_ResetsOnlyWhenSent(g, net) ==
    IF RefuseDrain(g)
    THEN [g EXCEPT !.tick = [@ EXCEPT !.called = TRUE, !.refused = TRUE,
                                      !.errorFlashes = 1]]
    ELSE IF PrimarySent(g, net)
    THEN ResetBuffer(
             Transmit(g, net, EndOfIndex(g),
                      SumSlots(g.celsiusRollingAverage, EndOfIndex(g))))
    ELSE Transmit(g, net, EndOfIndex(g),
                  SumSlots(g.celsiusRollingAverage, EndOfIndex(g)))

\* Mutant of broadcastReadings: the refused drain resets the buffer too.
broadcastReadings_ResetsWhenRefused(g, net) ==
    IF RefuseDrain(g)
    THEN ResetBuffer([g EXCEPT !.tick = [@ EXCEPT !.called = TRUE,
                                                  !.refused = TRUE,
                                                  !.errorFlashes = 1]])
    ELSE ResetBuffer(
             Transmit(g, net, EndOfIndex(g),
                      SumSlots(g.celsiusRollingAverage, EndOfIndex(g))))

broadcastReadings(g, net) ==
    IF RefuseDrain(g)
    THEN [g EXCEPT !.tick = [@ EXCEPT !.called = TRUE, !.refused = TRUE,
                                      !.errorFlashes = 1]]
    ELSE ResetBuffer(
             Transmit(g, net, EndOfIndex(g),
                      SumSlots(g.celsiusRollingAverage, EndOfIndex(g))))

\* Mutant of BroadcastDue: haveBroadcastSinceRead is not consulted.
BroadcastDue_IgnoresDone(g) == g.shouldBroadcast

\* if (shouldBroadcast && !haveBroadcastSinceRead)
BroadcastDue(g) == g.shouldBroadcast /\ ~g.haveBroadcastSinceRead

\* The broadcast branch of loop().
BroadcastBranch(g, net) ==
    IF BroadcastDue(g)
    THEN [broadcastReadings(g, net) EXCEPT
            !.shouldBroadcast = FALSE,
            !.shouldReadProbes = FALSE,
            !.haveBroadcastSinceRead = TRUE]
    ELSE g

\* Mutant of ReadBranch: no read in the tick after a failed one.
ReadBranch_SkipsAfterError(g, r) ==
    IF g.shouldReadProbes /\ ~g.probeReadingError THEN readProbes(g, r) ELSE g

\* The read branch of loop().
ReadBranch(g, r) == IF g.shouldReadProbes THEN readProbes(g, r) ELSE g

\* One iteration of loop(): the command check, the broadcast branch, the read
\* branch.
loop(g, d, net, r) ==
    ReadBranch(BroadcastBranch(checkForCommandAndControlMessage(g, d), net), r)

\* The readings of one tick: raw internal and probe temperatures (or NaN) and
\* the value lineariseTemperature returns for them (read only when neither
\* is NaN).
ProbeReadings ==
    { r \in [ internal : InternalReadings, celsius : CelsiusReadings,
              linearised : Samples \cup {0} ] :
        ReadFailed(r) <=> (r.linearised = 0) }
NoReading == [ internal |-> NaN, celsius |-> NaN, linearised |-> 0 ]

\* The inputs of one iteration, within the bounds of the model.
ReadingAdmissible(g, r) ==
    /\ ReadFailed(r) => g.probeReadingErrorCount < MaxErrors
    /\ ~ReadFailed(r) => g.pushesSinceReset < MaxPushes

\* The inputs an iteration consumes: the network is used by a drain that is
\* not refused, the thermocouple by an iteration that reaches readProbes().
DrainPending(g1) == BroadcastDue(g1) /\ ~RefuseDrain(g1)
DrainAdmissible(g1) == DrainPending(g1) => g1.rdpEpoch < MaxEpoch
NetInputs(g1) == IF DrainPending(g1) THEN NetOutcomes ELSE {NoNet}
ReadingInputs(g1) ==
    IF g1.shouldReadProbes /\ ~BroadcastDue(g1)
    THEN {r \in ProbeReadings : ReadingAdmissible(g1, r)}
    ELSE {NoReading}

\* A command datagram the loop acts on.
IsCommand(d, c) == d.size > 0 /\ cncCommand(d) = c

\* One iteration of loop() on the command datagram d (or none), with the
\* network behaving as net and the thermocouple returning r.
Loop(d, net, r) ==
    /\ pc = "loop"
    /\ \E g \in {loop(Globals, d, net, r)} :
         /\ shouldReadProbes' = g.shouldReadProbes
         /\ shouldBroadcast' = g.shouldBroadcast
         /\ haveBroadcastSinceRead' = g.haveBroadcastSinceRead
         /\ celsiusRollingAverage' = g.celsiusRollingAverage
         /\ rollingAveragePosition' = g.rollingAveragePosition
         /\ indexRolledOver' = g.indexRolledOver
         /\ minimumInternal' = g.minimumInternal
         /\ maximumInternal' = g.maximumInternal
         /\ probeReadingError' = g.probeReadingError
         /\ probeReadingErrorCount' = g.probeReadingErrorCount
         /\ rdpEpoch' = g.rdpEpoch
         /\ pushesSinceReset' = g.pushesSinceReset
         /\ tick' = g.tick
         /\ cycleRequested' =
              IF IsCommand(d, "readProbes") THEN FALSE
              ELSE cycleRequested \/ IsCommand(d, "broadcastReadings")
         /\ cycleBroadcasts' =
              IF IsCommand(d, "readProbes") THEN 0
              ELSE cycleBroadcasts + (IF g.tick.called THEN 1 ELSE 0)
    /\ UNCHANGED << pc, revision, debugLogging, gotRDPServer, rdpIPAddress, connectDelay,
                    rdpAckRetries, listenAttempts, delays, lastPacket >>

\* loop() on every input it can meet in the current state.
LoopOn(d) ==
    \E g1 \in {checkForCommandAndControlMessage(Globals, d)} :
      /\ DrainAdmissible(g1)
      /\ \E net \in NetInputs(g1), r \in ReadingInputs(g1) :
           Loop(d, net, r)

LoopStep ==
    /\ UNCHANGED << cncPacket, edgeVars, hallVars, internalsRead, pushed, cycleSamples,
                    lineariseVars >>
    /\ \E d \in {NoCommand} \cup CncDatagrams : LoopOn(d)

Next ==
    \/ SendSYN
    \/ ListenReceive
    \/ ListenTimeout
    \/ ListenExhausted
    \/ StartLoop
    \/ LoopStep

Spec == Init /\ [][Next]_vars

\* setup() keeps running until it returns: every pass of the listen loop
\* either receives a datagram or waits delay(connectDelay), which returns.
SetupStep ==
    SendSYN \/ ListenReceive \/ ListenTimeout \/ ListenExhausted \/ StartLoop
SpecLive == Init /\ [][Next]_vars /\ WF_vars(SetupStep)

\* --------------------------------------- the command parser, observed
\* loop() entered after a setup() whose handshake met a silent peer, with
\* the datagram each iteration's parser read kept in cncPacket.
InitCnc ==
    /\ pc = "loop"
    /\ revision \in {"independent", "coupled"}
    /\ debugLogging = FALSE
    /\ rdpEpoch = InitialEpoch + 1
    /\ gotRDPServer = FALSE
    /\ rdpIPAddress = UnsetAddress
    /\ connectDelay = 0
    /\ rdpAckRetries = 0
    /\ shouldReadProbes = FALSE
    /\ shouldBroadcast = FALSE
    /\ haveBroadcastSinceRead = FALSE
    /\ celsiusRollingAverage = [i \in 0 .. ROLLING_AVERAGE_COUNT - 1 |-> 0]
    /\ rollingAveragePosition = 0
    /\ indexRolledOver = FALSE
    /\ minimumInternal = DBL_MAX
    /\ maximumInternal = DBL_MIN
    /\ probeReadingError = FALSE
    /\ probeReadingErrorCount = 0
    /\ listenAttempts = 0
    /\ delays = << >>
    /\ lastPacket = NoPacket
    /\ pushesSinceReset = 0
    /\ cycleRequested = FALSE
    /\ cycleBroadcasts = 0
    /\ tick = IdleTick
    /\ cncPacket = NoCommand
    /\ internalsRead = {}
    /\ pushed = << >>
    /\ cycleSamples = << >>
    /\ HallIdle
    /\ LineariseIdle
    /\ EdgeIdle

LoopStepCnc ==
    /\ UNCHANGED << edgeVars, hallVars, internalsRead, pushed, cycleSamples,
                    lineariseVars >>
    /\ \E d \in {NoCommand} \cup CncDatagrams :
         /\ LoopOn(d)
         /\ cncPacket' = d

SpecCnc == InitCnc /\ [][LoopStepCnc]_vars

\* The loop with the samples stored since the last reset written down: a
\* drain that is not refused resets the buffer, a successful read stores the
\* value lineariseTemperature returned.
LoopStepHistory ==
    /\ UNCHANGED << cncPacket, edgeVars, hallVars, internalsRead, cycleSamples,
                    lineariseVars >>
    /\ \E d \in {NoCommand} \cup CncDatagrams :
         \E g1 \in {checkForCommandAndControlMessage(Globals, d)} :
           /\ DrainAdmissible(g1)
           /\ \E net \in NetInputs(g1), r \in ReadingInputs(g1) :
                /\ Loop(d, net, r)
                /\ pushed' = IF DrainPending(g1) THEN << >>
                             ELSE IF g1.shouldReadProbes /\ ~ReadFailed(r)
                                  THEN Append(pushed, r.linearised)
                                  ELSE pushed

SpecHistory == InitCnc /\ [][LoopStepHistory]_vars

\* The loop with the samples of the current acquisition cycle written down:
\* a readProbes command received while the machine is not acquiring starts
\* a cycle, a successful read stores the value lineariseTemperature returned.
LoopStepCycle ==
    /\ UNCHANGED << cncPacket, edgeVars, hallVars, internalsRead, pushed,
                    lineariseVars >>
    /\ \E d \in {NoCommand} \cup CncDatagrams :
         \E g1 \in {checkForCommandAndControlMessage(Globals, d)} :
           /\ DrainAdmissible(g1)
           /\ \E net \in NetInputs(g1), r \in ReadingInputs(g1) :
                /\ Loop(d, net, r)
                /\ \E started \in {IF /\ IsCommand(d, "readProbes")
                                       /\ ~shouldReadProbes
                                    THEN << >> ELSE cycleSamples} :
                     cycleSamples' =
                         IF g1.shouldReadProbes /\ ~BroadcastDue(g1)
                            /\ ~ReadFailed(r)
                         THEN Append(started, r.linearised)
                         ELSE started

SpecCycle == InitCnc /\ [][LoopStepCycle]_vars

\* ------------------------------------ the cold-junction minimum and maximum
\* Acquisition alone: the machine is acquiring and every tick reads the
\* thermocouple, whose cold junction may be below, at or above 0 degrees.
ColdJunctionValues == {0 - 7, 0 - 3, 0, 25, 30}
ColdJunctionReadings ==
    { r \in [ internal : {NaN} \cup {Num(v) : v \in ColdJunctionValues},
              celsius : CelsiusReadings, linearised : {0, 22} ] :
        ReadFailed(r) <=> (r.linearised = 0) }

InitInternal ==
    /\ pc = "loop"
    /\ revision = "independent"
    /\ debugLogging = FALSE
    /\ rdpEpoch = InitialEpoch + 1
    /\ gotRDPServer = FALSE
    /\ rdpIPAddress = UnsetAddress
    /\ connectDelay = 0
    /\ rdpAckRetries = 0
    /\ shouldReadProbes = TRUE
    /\ shouldBroadcast = FALSE
    /\ haveBroadcastSinceRead = FALSE
    /\ celsiusRollingAverage = [i \in 0 .. ROLLING_AVERAGE_COUNT - 1 |-> 0]
    /\ rollingAveragePosition = 0
    /\ indexRolledOver = FALSE
    /\ minimumInternal = DBL_MAX
    /\ maximumInternal = DBL_MIN
    /\ probeReadingError = FALSE
    /\ probeReadingErrorCount = 0
    /\ listenAttempts = 0
    /\ delays = << >>
    /\ lastPacket = NoPacket
    /\ pushesSinceReset = 0
    /\ cycleRequested = FALSE
    /\ cycleBroadcasts = 0
    /\ tick = IdleTick
    /\ cncPacket = NoCommand
    /\ internalsRead = {}
    /\ pushed = << >>
    /\ cycleSamples = << >>
    /\ HallIdle
    /\ LineariseIdle
    /\ EdgeIdle

\* One iteration of loop() without a datagram: readProbes() on r.
ReadTick ==
    /\ UNCHANGED << cncPacket, edgeVars, hallVars, pushed, cycleSamples,
                    lineariseVars >>
    /\ \E r \in ColdJunctionReadings :
         /\ ReadingAdmissible(Globals, r)
         /\ Loop(NoCommand, NoNet, r)
         /\ internalsRead' = IF ReadFailed(r) THEN internalsRead
                             ELSE internalsRead \cup {r.internal.val}

SpecInternal == InitInternal /\ [][ReadTick]_vars

\* ------------------------------------------------- lineariseTemperature()
\* Step 5 of lineariseTemperature: the inverse polynomial is chosen by the
\* summed voltage.  Voltages are in microvolts; the result is NAN or the
\* value of one of the three coefficient tables d[], named here by the
\* temperature range its comment gives.
V_20_644 == 20644
V_54_886 == 54886
TotalVoltages ==
    {1000 * k - 7000 : k \in 0 .. 63}
    \cup {0 - 5892, 0 - 5891, 0 - 5890, 0 - 1, 1, V_20_644 - 1, V_20_644,
          V_20_644 + 1, V_54_886 - 1, V_54_886, V_54_886 + 1}

\* if (totalVoltage < 0) ... else if (totalVoltage < 20.644) ...
\* else if (totalVoltage < 54.886) ... else correctedTemperature = NAN;
InverseOf(v) ==
    IF v < 0 THEN [nan |-> FALSE, d |-> "-200 to 0C"]
    ELSE IF v < V_20_644 THEN [nan |-> FALSE, d |-> "0 to 500C"]
    ELSE IF v < V_54_886 THEN [nan |-> FALSE, d |-> "500 to 1372C"]
    ELSE [nan |-> TRUE, d |-> "none"]

InitLinearise ==
    /\ pc = "linearise"
    /\ revision = "coupled"
    /\ debugLogging = FALSE
    /\ rdpEpoch = InitialEpoch + 1
    /\ gotRDPServer = FALSE
    /\ rdpIPAddress = UnsetAddress
    /\ connectDelay = 0
    /\ rdpAckRetries = 0
    /\ shouldReadProbes = TRUE
    /\ shouldBroadcast = FALSE
    /\ haveBroadcastSinceRead = FALSE
    /\ celsiusRollingAverage = [i \in 0 .. ROLLING_AVERAGE_COUNT - 1 |-> 0]
    /\ rollingAveragePosition = 0
    /\ indexRolledOver = FALSE
    /\ minimumInternal = DBL_MAX
    /\ maximumInternal = DBL_MIN
    /\ probeReadingError = FALSE
    /\ probeReadingErrorCount = 0
    /\ listenAttempts = 0
    /\ delays = << >>
    /\ lastPacket = NoPacket
    /\ pushesSinceReset = 0
    /\ cycleRequested = FALSE
    /\ cycleBroadcasts = 0
    /\ tick = IdleTick
    /\ cncPacket = NoCommand
    /\ internalsRead = {}
    /\ pushed = << >>
    /\ cycleSamples = << >>
    /\ HallIdle
    /\ EdgeIdle
    /\ totalVoltage \in TotalVoltages
    /\ correctedTemperature = NotComputed

\* Step 5 on the summed voltage of this call.
Linearise ==
    /\ pc = "linearise"
    /\ correctedTemperature = NotComputed
    /\ correctedTemperature' = InverseOf(totalVoltage)
    /\ UNCHANGED << pc, revision, debugLogging, handshakeVars, flagVars,
                    bufferVars, tick, cncPacket, edgeVars, hallVars, internalsRead,
                    pushed, cycleSamples, totalVoltage >>

SpecLinearise == InitLinearise /\ [][Linearise]_vars

\* readProbes() stores what lineariseTemperature returned:
\* celsiusRollingAverage[rollingAveragePosition] = lineariseTemperature(..)
\* for raw readings that are both numbers.
StoreLinearised ==
    /\ pc = "linearise"
    /\ correctedTemperature # NotComputed
    /\ tick.read = "none"
    /\ \E g \in {readProbes(Globals,
                             [internal |-> Num(25), celsius |-> Num(23),
                              linearised |-> correctedTemperature])} :
         /\ celsiusRollingAverage' = g.celsiusRollingAverage
         /\ rollingAveragePosition' = g.rollingAveragePosition
         /\ indexRolledOver' = g.indexRolledOver
         /\ minimumInternal' = g.minimumInternal
         /\ maximumInternal' = g.maximumInternal
         /\ probeReadingError' = g.probeReadingError
         /\ probeReadingErrorCount' = g.probeReadingErrorCount
         /\ pushesSinceReset' = g.pushesSinceReset
         /\ tick' = g.tick
    /\ UNCHANGED << pc, revision, debugLogging, handshakeVars, flagVars,
                    cncPacket, edgeVars, hallVars, internalsRead, pushed, cycleSamples,
                    lineariseVars >>

NextStore == Linearise \/ StoreLinearised
SpecStore == InitLinearise /\ [][NextStore]_vars

\* ------------------------------------------- the hardware-edge variant
\* loop() of WiFiTemperatureBroadcast.ino runs statement by statement; the
\* handlers of the switch interrupt run between any two of its statements.
\* const unsigned long reattachmentDelay = 2000;
reattachmentDelay == 2000

\* The state in which loop() is entered: setup() attached switchActivated
\* to the RISING edge, no edge has come yet, the handshake ended either way.
InitEdge ==
    /\ pc = "edge"
    /\ revision = "coupled"
    /\ debugLogging = FALSE
    /\ rdpEpoch = InitialEpoch + 1
    /\ gotRDPServer \in BOOLEAN
    /\ rdpIPAddress = IF gotRDPServer THEN PeerAddress ELSE UnsetAddress
    /\ connectDelay = 0
    /\ rdpAckRetries = 0
    /\ shouldReadProbes = FALSE
    /\ shouldBroadcast = FALSE
    /\ haveBroadcastSinceRead = FALSE
    /\ celsiusRollingAverage = [i \in 0 .. ROLLING_AVERAGE_COUNT - 1 |-> 0]
    /\ rollingAveragePosition = 0
    /\ indexRolledOver = FALSE
    /\ minimumInternal = DBL_MAX
    /\ maximumInternal = DBL_MIN
    /\ probeReadingError = FALSE
    /\ probeReadingErrorCount = 0
    /\ listenAttempts = 0
    /\ delays = << >>
    /\ lastPacket = NoPacket
    /\ pushesSinceReset = 0
    /\ cycleRequested = FALSE
    /\ cycleBroadcasts = 0
    /\ tick = IdleTick
    /\ cncPacket = NoCommand
    /\ internalsRead = {}
    /\ pushed = << >>
    /\ cycleSamples = << >>
    /\ HallIdle
    /\ LineariseIdle
    /\ millis = 0
    /\ pin \in {0, 1}
    /\ attached = "switchActivated"
    /\ detachedAt = 0
    /\ epc = "top"
    /\ toAttach = "none"
    /\ everDetached = FALSE
    /\ outstanding = 0
    /\ cycleOpen = FALSE
    /\ readOwed = FALSE

\* The environment of the edge variant: the thermocouple returns one
\* temperature or fails, the network works.
EdgeReadings ==
    { r \in ProbeReadings : r.linearised \in {0, 22} }

\* What no statement of the edge variant touches.
edgeFixed == << pc, revision, debugLogging, gotRDPServer, rdpIPAddress,
               connectDelay, rdpAckRetries, listenAttempts, delays,
               lastPacket, cycleRequested, cycleBroadcasts, cncPacket,
               internalsRead, pushed, cycleSamples, totalVoltage,
               correctedTemperature, hpc, switchState, switchPinLevel,
               interruptHandler, everTriggered, transmitted >>
triggerFlags == << shouldReadProbes, shouldBroadcast, haveBroadcastSinceRead >>
switchVars == << pin, attached, detachedAt, everDetached >>

\* millis() advances while the program runs.
Clock ==
    /\ UNCHANGED << cycleOpen, readOwed >>
    /\ pc = "edge"
    /\ millis + ClockStep <= MaxMillis
    /\ millis' = millis + ClockStep
    /\ UNCHANGED << edgeFixed, triggerFlags, switchVars, bufferVars, rdpEpoch,
                    tick, epc, toAttach, outstanding >>

\* The handlers: an edge of the kind the attached handler waits for.
\* void switchActivated(): flags, detachInterrupt, detachedAt = millis().
switchActivated ==
    /\ cycleOpen' = TRUE
    /\ readOwed' = TRUE
    /\ pc = "edge"
    /\ attached = "switchActivated" /\ pin = 0
    /\ pin' = 1
    /\ shouldReadProbes' = TRUE
    /\ shouldBroadcast' = FALSE
    /\ haveBroadcastSinceRead' = FALSE
    /\ attached' = "none"
    /\ detachedAt' = millis
    /\ everDetached' = TRUE
    /\ outstanding' = IF outstanding < 2 THEN outstanding + 1 ELSE 2
    /\ UNCHANGED << edgeFixed, bufferVars, rdpEpoch, tick, millis, epc,
                    toAttach >>

\* switchDeactivated() as it would be if the handler also marked the
\* broadcast as done.
switchDeactivated_MarksDone ==
    /\ cycleOpen' = TRUE
    /\ UNCHANGED readOwed
    /\ pc = "edge"
    /\ attached = "switchDeactivated" /\ pin = 1
    /\ pin' = 0
    /\ shouldReadProbes' = FALSE
    /\ shouldBroadcast' = TRUE
    /\ haveBroadcastSinceRead' = TRUE
    /\ attached' = "none"
    /\ detachedAt' = millis
    /\ everDetached' = TRUE
    /\ outstanding' = IF outstanding < 2 THEN outstanding + 1 ELSE 2
    /\ UNCHANGED << edgeFixed, bufferVars, rdpEpoch, tick, millis, epc,
                    toAttach >>

\* void switchDeactivated()
switchDeactivated ==
    /\ cycleOpen' = TRUE
    /\ UNCHANGED readOwed
    /\ pc = "edge"
    /\ attached = "switchDeactivated" /\ pin = 1
    /\ pin' = 0
    /\ shouldReadProbes' = FALSE
    /\ shouldBroadcast' = TRUE
    /\ haveBroadcastSinceRead' = haveBroadcastSinceRead
    /\ attached' = "none"
    /\ detachedAt' = millis
    /\ everDetached' = TRUE
    /\ outstanding' = IF outstanding < 2 THEN outstanding + 1 ELSE 2
    /\ UNCHANGED << edgeFixed, bufferVars, rdpEpoch, tick, millis, epc,
                    toAttach >>

\* An edge no attached handler waits for (the switch moves or bounces).
SwitchMoves ==
    /\ UNCHANGED << cycleOpen, readOwed >>
    /\ pc = "edge"
    /\ ~(attached = "switchActivated" /\ pin = 0)
    /\ ~(attached = "switchDeactivated" /\ pin = 1)
    /\ pin' = 1 - pin
    /\ UNCHANGED << edgeFixed, triggerFlags, bufferVars, rdpEpoch, tick,
                    millis, attached, detachedAt, everDetached, epc,
                    toAttach, outstanding >>

\* if ((millis() - detachedAt) > reattachmentDelay)
EdgeTop ==
    /\ UNCHANGED << cycleOpen, readOwed >>
    /\ pc = "edge" /\ epc = "top"
    /\ epc' = IF (millis - detachedAt) > reattachmentDelay
              THEN "pick" ELSE "branch"
    /\ outstanding' = 0
    /\ tick' = IdleTick
    /\ UNCHANGED << edgeFixed, triggerFlags, switchVars, bufferVars, rdpEpoch,
                    millis, toAttach >>

\* if (shouldReadProbes) ... else ...: which handler to attach
EdgePick ==
    /\ UNCHANGED << cycleOpen, readOwed >>
    /\ pc = "edge" /\ epc = "pick"
    /\ toAttach' = IF shouldReadProbes THEN "switchDeactivated"
                   ELSE "switchActivated"
    /\ epc' = "attach"
    /\ UNCHANGED << edgeFixed, triggerFlags, switchVars, bufferVars, rdpEpoch,
                    tick, millis, outstanding >>

\* attachInterrupt(digitalPinToInterrupt(SWITCH_PIN), handler, mode)
EdgeAttach ==
    /\ UNCHANGED << cycleOpen, readOwed >>
    /\ pc = "edge" /\ epc = "attach"
    /\ attached' = toAttach
    /\ toAttach' = "none"
    /\ epc' = "branch"
    /\ UNCHANGED << edgeFixed, triggerFlags, bufferVars, rdpEpoch, tick,
                    millis, pin, detachedAt, everDetached, outstanding >>

\* if (shouldBroadcast && !haveBroadcastSinceRead): the two volatile flags
\* are read one after the other.
EdgeBranch ==
    /\ pc = "edge" /\ epc = "branch"
    /\ epc' = IF shouldBroadcast THEN "branch2" ELSE "read"
    /\ cycleOpen' = IF shouldBroadcast THEN FALSE ELSE cycleOpen
    /\ UNCHANGED readOwed
    /\ UNCHANGED << edgeFixed, triggerFlags, switchVars, bufferVars, rdpEpoch,
                    tick, millis, toAttach, outstanding >>

EdgeBranch2 ==
    /\ UNCHANGED << cycleOpen, readOwed >>
    /\ pc = "edge" /\ epc = "branch2"
    /\ epc' = IF ~haveBroadcastSinceRead THEN "drain" ELSE "read"
    /\ UNCHANGED << edgeFixed, triggerFlags, switchVars, bufferVars, rdpEpoch,
                    tick, millis, toAttach, outstanding >>

\* broadcastReadings();
EdgeDrain ==
    /\ UNCHANGED << cycleOpen, readOwed >>
    /\ pc = "edge" /\ epc = "drain"
    /\ ~RefuseDrain(Globals) => rdpEpoch < MaxEpoch
    /\ \E net \in IF RefuseDrain(Globals) THEN {NoNet} ELSE {AllSucceed} :
         \E g \in {broadcastReadings(Globals, net)} :
           /\ celsiusRollingAverage' = g.celsiusRollingAverage
           /\ rollingAveragePosition' = g.rollingAveragePosition
           /\ indexRolledOver' = g.indexRolledOver
           /\ pushesSinceReset' = g.pushesSinceReset
           /\ rdpEpoch' = g.rdpEpoch
           /\ tick' = g.tick
    /\ epc' = "clearB"
    /\ UNCHANGED << edgeFixed, triggerFlags, switchVars, minimumInternal,
                    maximumInternal, probeReadingError,
                    probeReadingErrorCount, millis, toAttach, outstanding >>

\* shouldBroadcast = false;
EdgeClearBroadcast ==
    /\ UNCHANGED << cycleOpen, readOwed >>
    /\ pc = "edge" /\ epc = "clearB"
    /\ shouldBroadcast' = FALSE
    /\ epc' = "clearR"
    /\ UNCHANGED << edgeFixed, shouldReadProbes, haveBroadcastSinceRead,
                    switchVars, bufferVars, rdpEpoch, tick, millis, toAttach,
                    outstanding >>

\* shouldReadProbes = false;
EdgeClearRead ==
    /\ UNCHANGED << cycleOpen, readOwed >>
    /\ pc = "edge" /\ epc = "clearR"
    /\ shouldReadProbes' = FALSE
    /\ epc' = "setDone"
    /\ UNCHANGED << edgeFixed, shouldBroadcast, haveBroadcastSinceRead,
                    switchVars, bufferVars, rdpEpoch, tick, millis, toAttach,
                    outstanding >>

\* haveBroadcastSinceRead = true;
EdgeSetDone ==
    /\ UNCHANGED << cycleOpen, readOwed >>
    /\ pc = "edge" /\ epc = "setDone"
    /\ haveBroadcastSinceRead' = TRUE
    /\ epc' = "read"
    /\ UNCHANGED << edgeFixed, shouldReadProbes, shouldBroadcast, switchVars,
                    bufferVars, rdpEpoch, tick, millis, toAttach,
                    outstanding >>

\* if (shouldReadProbes) { readProbes(); }  delay(50);
EdgeRead ==
    /\ UNCHANGED cycleOpen
    /\ readOwed' = IF shouldReadProbes THEN FALSE ELSE readOwed
    /\ pc = "edge" /\ epc = "read"
    /\ \E r \in IF shouldReadProbes
                 THEN {x \in EdgeReadings : ReadingAdmissible(Globals, x)}
                 ELSE {NoReading} :
         \E g \in {IF shouldReadProbes
                    THEN readProbes([Globals EXCEPT !.tick = tick], r)
                    ELSE [Globals EXCEPT !.tick = tick]} :
           /\ celsiusRollingAverage' = g.celsiusRollingAverage
           /\ rollingAveragePosition' = g.rollingAveragePosition
           /\ indexRolledOver' = g.indexRolledOver
           /\ minimumInternal' = g.minimumInternal
           /\ maximumInternal' = g.maximumInternal
           /\ probeReadingError' = g.probeReadingError
           /\ probeReadingErrorCount' = g.probeReadingErrorCount
           /\ pushesSinceReset' = g.pushesSinceReset
           /\ tick' = g.tick
    /\ epc' = "top"
    /\ UNCHANGED << edgeFixed, triggerFlags, switchVars, rdpEpoch, millis,
                    toAttach, outstanding >>

NextEdge ==
    \/ Clock
    \/ switchActivated
    \/ switchDeactivated
    \/ SwitchMoves
    \/ EdgeTop
    \/ EdgePick
    \/ EdgeAttach
    \/ EdgeBranch
    \/ EdgeBranch2
    \/ EdgeDrain
    \/ EdgeClearBroadcast
    \/ EdgeClearRead
    \/ EdgeSetDone
    \/ EdgeRead

SpecEdge == InitEdge /\ [][NextEdge]_vars

\* ------------------------------------- the trigger node (HallEffectBroadcast)
\* The sketch that sends the commands: a latching hall-effect switch on
\* switchPin raises interrupts, the handlers set switchState, and loop()
\* transmits a control message according to switchState.
\* char cncReadBeanMassProbe[], cncBroadcastBeanMassReadings[]
cncReadBeanMassProbe == "readProbes"
cncBroadcastBeanMassReadings == "broadcastReadings"

\* What the broadcaster's variables are while the trigger node runs.
hallFixed == << pc, revision, debugLogging, handshakeVars, flagVars,
               bufferVars, tick, cncPacket, edgeVars, internalsRead, pushed,
               cycleSamples, lineariseVars >>

\* volatile bool switchState = false; no interrupt attached yet; the
\* latching sensor holds the pin at either level.
InitHall ==
    /\ pc = "setup"
    /\ revision = "independent"
    /\ debugLogging \in BOOLEAN
    /\ rdpEpoch = InitialEpoch
    /\ gotRDPServer = FALSE
    /\ rdpIPAddress = UnsetAddress
    /\ connectDelay = 0
    /\ rdpAckRetries = 0
    /\ shouldReadProbes = FALSE
    /\ shouldBroadcast = FALSE
    /\ haveBroadcastSinceRead = FALSE
    /\ celsiusRollingAverage = [i \in 0 .. ROLLING_AVERAGE_COUNT - 1 |-> 0]
    /\ rollingAveragePosition = 0
    /\ indexRolledOver = FALSE
    /\ minimumInternal = DBL_MAX
    /\ maximumInternal = DBL_MIN
    /\ probeReadingError = FALSE
    /\ probeReadingErrorCount = 0
    /\ listenAttempts = 0
    /\ delays = << >>
    /\ lastPacket = NoPacket
    /\ pushesSinceReset = 0
    /\ cycleRequested = FALSE
    /\ cycleBroadcasts = 0
    /\ tick = IdleTick
    /\ cncPacket = NoCommand
    /\ internalsRead = {}
    /\ pushed = << >>
    /\ cycleSamples = << >>
    /\ LineariseIdle
    /\ EdgeIdle
    /\ hpc = "setup"
    /\ switchState = FALSE
    /\ switchPinLevel \in {0, 1}
    /\ interruptHandler = "none"
    /\ everTriggered = FALSE
    /\ transmitted = << >>

\* attachInterrupt(digitalPinToInterrupt(switchPin), switchStateChangeHigh,
\* RISING); pinMode(switchPin, INPUT_PULLUP);
HallAttach ==
    /\ hpc = "setup"
    /\ hpc' = "attached"
    /\ interruptHandler' = "switchStateChangeHigh"
    /\ UNCHANGED << switchState, switchPinLevel, everTriggered, transmitted >>
    /\ UNCHANGED hallFixed

\* The LED signalling ends and setup() returns.
HallStart ==
    /\ hpc = "attached"
    /\ hpc' = "loop"
    /\ UNCHANGED << switchState, switchPinLevel, interruptHandler,
                    everTriggered, transmitted >>
    /\ UNCHANGED hallFixed

\* void switchStateChangeHigh(): switchState = HIGH; attach the FALLING one.
\* The pin rises; the handler runs if it is the one attached.
switchStateChangeHigh ==
    /\ switchPinLevel = 0
    /\ switchPinLevel' = 1
    /\ IF interruptHandler = "switchStateChangeHigh"
       THEN /\ switchState' = TRUE
            /\ interruptHandler' = "switchStateChangeLow"
            /\ everTriggered' = TRUE
       ELSE UNCHANGED << switchState, interruptHandler, everTriggered >>
    /\ UNCHANGED << hpc, transmitted >>
    /\ UNCHANGED hallFixed

\* void switchStateChangeLow(): switchState = LOW; attach the RISING one.
switchStateChangeLow ==
    /\ switchPinLevel = 1
    /\ switchPinLevel' = 0
    /\ IF interruptHandler = "switchStateChangeLow"
       THEN /\ switchState' = FALSE
            /\ interruptHandler' = "switchStateChangeHigh"
            /\ everTriggered' = TRUE
       ELSE UNCHANGED << switchState, interruptHandler, everTriggered >>
    /\ UNCHANGED << hpc, transmitted >>
    /\ UNCHANGED hallFixed

\* int transmitControlMessage(char*): beginPacketMulticast, write, and the
\* value of udp.endPacket() is returned.
transmitControlMessage(log, cncMessageToSend, status) ==
    Append(log, [message |-> cncMessageToSend, status |-> status])

\* loop(): if (switchState == HIGH) transmit readProbes, else transmit
\* broadcastReadings; the status only selects the LED pattern.
HallLoop ==
    /\ hpc = "loop"
    /\ Len(transmitted) < MaxTransmissions
    /\ \E transmissionStatus \in {0, 1} :
         transmitted' =
             IF switchState
             THEN transmitControlMessage(transmitted, cncReadBeanMassProbe,
                                         transmissionStatus)
             ELSE transmitControlMessage(transmitted,
                                         cncBroadcastBeanMassReadings,
                                         transmissionStatus)
    /\ UNCHANGED << hpc, switchState, switchPinLevel, interruptHandler,
                    everTriggered >>
    /\ UNCHANGED hallFixed

NextHall ==
    \/ HallAttach
    \/ HallStart
    \/ switchStateChangeHigh
    \/ switchStateChangeLow
    \/ HallLoop

SpecHall == InitHall /\ [][NextHall]_vars

\* ================================================================ claims
\* Handshake: the peer stayed silent through the whole listen loop.
PeerSilent == lastPacket = NoPacket

\* The delay before the (k+1)-th listen attempt is 5 * 2^(k-1) ms.
RECURSIVE Doubling(_)
Doubling(ds) ==
    \/ ds = << >>
    \/ /\ ds[1] = InitialConnectDelay
       /\ \A k \in 2 .. Len(ds) : ds[k] = 2 * ds[k - 1]

\* C4: with a peer that never sends, the handshake makes exactly
\* rdpMaxAckListenAttempts listen attempts, waits 5 * 2^(k-1) ms after the
\* k-th of them and ends with gotRDPServer false.
C4_SilentPeerExhaustsConfiguredRetries ==
    (pc = "ready" /\ PeerSilent) =>
        /\ listenAttempts = rdpMaxAckListenAttempts
        /\ Len(delays) = rdpMaxAckListenAttempts
        /\ Doubling(delays)
        /\ ~gotRDPServer

\* C5: a datagram that is not a valid ACK does not end the listen loop and
\* consumes no retry: without an ACK the handshake ends only when the retries
\* are exhausted.
C5_NonAckKeepsListening ==
    (pc = "ready" /\ ~gotRDPServer) =>
        rdpAckRetries > rdpMaxAckListenAttempts

\* ------------------------------------------------------------ the loop
BroadcastRequest == [size |-> 1, json |-> TRUE, command |-> "broadcastReadings"]
Drained == tick.called /\ ~tick.refused
NothingSent == tick.primary = NoDatagram /\ tick.secondary = NoDatagram

\* C1: between two accepted readProbes commands broadcastReadings() is
\* invoked exactly once, by the first broadcastReadings command; an
\* iteration later in the cycle, whatever command it receives (a further
\* broadcastReadings among them), invokes nothing and sends no datagram.
C1_OneBroadcastPerCycle ==
    /\ [](cycleBroadcasts <= 1 /\ (cycleRequested => cycleBroadcasts = 1))
    /\ [][ (pc = "loop" /\ cycleRequested /\ cycleRequested') =>
             (~tick'.called /\ NothingSent' /\ rdpEpoch' = rdpEpoch) ]_vars

\* A repeated broadcastReadings command has been received in a cycle whose
\* broadcast went out.
C1_Witness ==
    /\ cycleRequested /\ cycleBroadcasts = 1
    /\ shouldBroadcast /\ haveBroadcastSinceRead
    /\ ~tick.called
    /\ rdpEpoch > InitialEpoch + 1

\* C2: in every revision of broadcastReadings, a drain that is not refused,
\* with the network up and the packet operations succeeding, sends with
\* gotRDPServer false exactly one datagram: the self-describing payload to
\* the primary destination, and nothing to the secondary one.
C2_PrimaryOnlyWithoutServer ==
    [][ \A d \in CncDatagrams, r \in ProbeReadings \cup {NoReading} :
          (Loop(d, AllSucceed, r) /\ Drained' /\ ~gotRDPServer) =>
              /\ tick'.primary # NoDatagram
              /\ tick'.primary.kind = "broadcast"
              /\ tick'.secondary = NoDatagram ]_vars

\* C3: with gotRDPServer true the two sends are independent: the primary
\* datagram is sent iff the primary's beginPacket and endPacket succeed, the
\* secondary datagram iff the secondary's do.
C3_IndependentSends ==
    [][ \A d \in CncDatagrams, r \in ProbeReadings \cup {NoReading} :
        \A net \in {n \in NetOutcomes : n.wifi} :
          (Loop(d, net, r) /\ Drained' /\ gotRDPServer) =>
              /\ (tick'.primary # NoDatagram) <=> (net.brdBegin /\ net.brdEnd)
              /\ (tick'.secondary # NoDatagram) <=> (net.rdpBegin /\ net.rdpEnd)
      ]_vars

\* ------------------------------------------------------- the accumulator
\* C6 as claimed: the write position stays below the capacity.
C6_PositionBelowCapacity ==
    rollingAveragePosition \in 0 .. ROLLING_AVERAGE_COUNT - 1

\* C6 (amended): the write position is within 0 .. N: it equals N after the
\* N-th push since a reset, until the next push wraps it; every store uses an
\* index below N.
C6_PositionWithinCapacity ==
    /\ rollingAveragePosition \in 0 .. ROLLING_AVERAGE_COUNT
    /\ tick.read = "ok" =>
         /\ tick.index \in 0 .. ROLLING_AVERAGE_COUNT - 1
         /\ rollingAveragePosition = tick.index + 1

\* The buffer is full and has not rolled over.
C6_Witness ==
    /\ rollingAveragePosition = ROLLING_AVERAGE_COUNT
    /\ ~indexRolledOver
    /\ tick.read = "ok"

\* C7: indexRolledOver is true iff more than N successful pushes have
\* occurred since the last drain that reset the buffer (or since startup).
C7_RolledOverIffMoreThanCapacity ==
    indexRolledOver <=> (pushesSinceReset > ROLLING_AVERAGE_COUNT)

\* The push after the buffer filled: position wrapped, flag set.
C7_Witness ==
    /\ indexRolledOver
    /\ pushesSinceReset = ROLLING_AVERAGE_COUNT + 1
    /\ rollingAveragePosition = 1

\* The slots a drain averages, and their sum, by the specification.
ValidSlots(position, rolledOver) ==
    IF rolledOver THEN 0 .. ROLLING_AVERAGE_COUNT - 1 ELSE 0 .. position - 1

RECURSIVE SumOver(_, _)
SumOver(f, S) ==
    IF S = {} THEN 0
    ELSE LET i == CHOOSE j \in S : TRUE IN f[i] + SumOver(f, S \ {i})

\* v, in hundredths, is the quotient num / den rounded to two decimals.
IsRounded(v, num, den) ==
    /\ 2 * (100 * num - v * den) <= den
    /\ 2 * (v * den - 100 * num) < den

\* C8: a drain that is not refused computes the arithmetic mean of the slots
\* [0, p) when not rolled over and of all N slots when rolled over; pushes
\* 20, 22, 24 without rollover yield 22.
C8_DrainAveragesValidSlots ==
    [][ (pc = "loop" /\ Drained') =>
          LET S == ValidSlots(rollingAveragePosition, indexRolledOver)
          IN  /\ tick'.endOfIndex = Cardinality(S)
              /\ tick'.sum = SumOver(celsiusRollingAverage, S)
              /\ tick'.primary # NoDatagram =>
                   /\ ~isnan(tick'.primary.reading)
                   /\ IsRounded(tick'.primary.reading.val, tick'.sum,
                                tick'.endOfIndex)
              /\ ( /\ ~indexRolledOver
                   /\ rollingAveragePosition = 3
                   /\ celsiusRollingAverage[0] = 20
                   /\ celsiusRollingAverage[1] = 22
                   /\ celsiusRollingAverage[2] = 24 ) =>
                   /\ tick'.sum = 22 * tick'.endOfIndex
                   /\ tick'.primary # NoDatagram =>
                        tick'.primary.reading = Num(2200) ]_vars

\* The drain of the pushes 20, 22, 24 went out to the primary destination.
C8_Witness ==
    /\ Drained
    /\ tick.endOfIndex = 3 /\ tick.sum = 66
    /\ celsiusRollingAverage[0] = 20
    /\ celsiusRollingAverage[1] = 22
    /\ celsiusRollingAverage[2] = 24
    /\ tick.primary # NoDatagram
    /\ tick.primary.reading = Num(2200)

\* C9: right after a drain that is not refused the accumulator is empty, and
\* a drain attempted with no successful push since the reset is refused: it
\* computes no average and sends no datagram.
C9_DrainEmptiesAndSecondIsRefused ==
    /\ [](Drained => (rollingAveragePosition = 0 /\ ~indexRolledOver))
    /\ [][ (pc = "loop" /\ tick'.called /\ pushesSinceReset = 0) =>
             /\ tick'.refused
             /\ tick'.endOfIndex = 0
             /\ NothingSent'
             /\ rdpEpoch' = rdpEpoch
             /\ rollingAveragePosition' = 0 /\ ~indexRolledOver' ]_vars

\* A drain was refused after an earlier drain had emptied the accumulator and
\* nothing was pushed since.
C9_Witness ==
    /\ tick.called /\ tick.refused
    /\ pushesSinceReset = 0
    /\ rollingAveragePosition = 0 /\ ~indexRolledOver
    /\ rdpEpoch > InitialEpoch + 1

\* C10: whenever broadcastReadings reaches the division, the divisor
\* endOfIndex is at least 1 and at most N.
C10_DivisorIsPositive ==
    Drained => tick.endOfIndex \in 1 .. ROLLING_AVERAGE_COUNT

\* A drain divided by N, the whole buffer.
C10_Witness ==
    /\ Drained
    /\ tick.endOfIndex = ROLLING_AVERAGE_COUNT
    /\ pc = "loop"
    /\ tick.sum > 0

\* ------------------------------------------------------ the trigger state
ReadProbesRequest == [size |-> 1, json |-> TRUE, command |-> "readProbes"]

NaNReadings ==
    { r \in [ internal : InternalReadings, celsius : CelsiusReadings,
              linearised : Samples \cup {0} ] :
        isnan(r.internal) \/ isnan(r.celsius) }

\* C12: a sensor read that fails (either raw value NaN) adds exactly one to
\* probeReadingErrorCount and pushes nothing: in every reachable state
\* readProbes() on such readings leaves position, rollover, buffer,
\* minimum/maximum and the trigger flags as they were; and after a tick
\* whose read failed shouldReadProbes is still true, so the read is
\* attempted again in the next tick.
C12_FailedReadCountsAndSkipsPush ==
    /\ \A r \in NaNReadings :
          readProbes(Globals, r) =
              [Globals EXCEPT !.probeReadingError = TRUE,
                              !.probeReadingErrorCount = @ + 1,
                              !.tick = [@ EXCEPT !.read = "failed"]]
    /\ (pc = "loop" /\ tick.read = "failed") =>
          /\ shouldReadProbes /\ ~shouldBroadcast
          /\ probeReadingError /\ probeReadingErrorCount > 0

\* A read failed after samples had been pushed.
C12_Witness ==
    /\ pc = "loop" /\ tick.read = "failed"
    /\ probeReadingErrorCount = 1
    /\ rollingAveragePosition > 0
    /\ shouldReadProbes

\* C13: a broadcast request handled while the accumulator is empty or the
\* most recent read failed sends no datagram and leaves the accumulator,
\* rdpEpoch and haveBroadcastSinceRead as they were.
C13_RefusedDrainIsNoOp ==
    [][ (pc = "loop" /\ tick'.called /\ tick'.refused) =>
          /\ NothingSent'
          /\ UNCHANGED << celsiusRollingAverage, rollingAveragePosition,
                          indexRolledOver, pushesSinceReset, rdpEpoch >>
          /\ haveBroadcastSinceRead' = haveBroadcastSinceRead ]_vars

\* C14: probeReadingError is the outcome of the most recent read attempt
\* (set by a failed read, cleared by a successful one, untouched by a tick
\* without a read), and a broadcast request handled while it is false and
\* samples have been pushed is not refused, whatever reads failed earlier.
C14_OnlyLastReadSuppresses ==
    [][ pc = "loop" =>
          /\ (tick'.read = "none") => (probeReadingError' = probeReadingError)
          /\ (tick'.read = "ok") => ~probeReadingError'
          /\ (tick'.read = "failed") => probeReadingError'
          /\ (tick'.called /\ ~probeReadingError /\ pushesSinceReset > 0)
                => Drained' ]_vars

\* A drain went ahead in a run in which a read had failed.
C14_Witness ==
    /\ Drained
    /\ probeReadingErrorCount > 0
    /\ tick.primary # NoDatagram

\* ------------------------------------------------------ the secondary peer
\* C20: gotRDPServer changes only in the listen loop of the handshake, only
\* from false to true, and only on a datagram that parses and whose
\* RPPayload[0].RPEventType is ACK; after the handshake it is constant, and
\* a handshake that ends without such a datagram leaves it false.
C20_SecondaryLatchedByAckOnly ==
    /\ [][ (gotRDPServer' # gotRDPServer) =>
              /\ pc = "listen" /\ ~gotRDPServer /\ gotRDPServer'
              /\ lastPacket'.size > 0 /\ lastPacket'.json
              /\ lastPacket'.RPEventType = RDPEventType_ACK ]_vars
    /\ []( (pc = "ready" /\ lastPacket.RPEventType # RDPEventType_ACK)
              => ~gotRDPServer )
    /\ []( (pc \in {"setup", "listen"}) => ~gotRDPServer )

\* The handshake ended on an ACK and the main loop has since broadcast.
C20_Witness ==
    /\ pc = "loop" /\ gotRDPServer
    /\ rdpIPAddress = PeerAddress
    /\ Drained /\ tick.secondary # NoDatagram

\* --------------------------------------------------- ignored datagrams
\* Datagrams that do not parse as JSON, have no command, or carry a command
\* other than the two the parser knows.
IgnoredDatagrams ==
    { d \in CncDatagrams :
        ~d.json \/ d.command \notin {"readProbes", "broadcastReadings"} }

\* C17: a tick whose command datagram is malformed or carries an unknown
\* command does to the flags, the accumulator and the error indication
\* exactly what a tick without a datagram does.
C17_IgnoredDatagramChangesNothing ==
    [][ (pc = "loop" /\ cncPacket' \in IgnoredDatagrams) =>
          \E net \in NetInputs(Globals), r \in ReadingInputs(Globals) :
            Loop(NoCommand, net, r) ]_vars

\* Unparseable bytes that spell readProbes arrived in a finished cycle, and
\* the machine stayed idle.
C17_Witness ==
    /\ cncPacket \in IgnoredDatagrams
    /\ ~cncPacket.json /\ cncPacket.command = "readProbes"
    /\ haveBroadcastSinceRead /\ ~shouldReadProbes /\ ~shouldBroadcast
    /\ rdpEpoch > InitialEpoch + 1
    /\ tick.read = "none" /\ ~tick.called

\* ------------------------------------------------ the switch interrupt
\* A handler ran in this step: only the handlers detach.
HandlerRan == attached # "none" /\ attached' = "none"
\* loop() attached a handler in this step.
Attached == epc = "attach" /\ epc' = "branch"
Debounced == (millis - detachedAt) > reattachmentDelay

\* C19: in the hardware-edge variant, under every interleaving, a handler
\* detaches itself when it runs, loop() attaches a handler only when more
\* than reattachmentDelay ms have passed since the last detach, no handler
\* runs within reattachmentDelay ms of the previous one, and at most one
\* handler execution is outstanding.
C19_DebouncedSingleOutstanding ==
    /\ [][ (outstanding' > outstanding) => attached' = "none" ]_vars
    /\ [][ (Attached /\ everDetached) => Debounced ]_vars
    /\ [][ (HandlerRan /\ everDetached) => Debounced ]_vars
    /\ [](outstanding <= 1)

\* C15: when a start-acquiring request has arrived by the time the
\* broadcast branch of a tick finishes, the tick still honours it: the
\* branch leaves shouldReadProbes true and the tick ends with a read.
\* (shouldReadProbes is false when the branch is entered, so it is true
\* inside the branch only if switchActivated ran meanwhile.)
C15_AcquireRequestSurvivesBroadcast ==
    [][ (pc = "edge" /\ epc = "clearR" /\ epc' = "setDone"
         /\ shouldReadProbes) => shouldReadProbes' ]_vars

\* C16: shouldReadProbes and shouldBroadcast are never both true, and from
\* a trigger until loop() takes up the broadcast that ends the cycle
\* exactly one of them is true.
C16_ExactlyOneFlagWhileBusy ==
    /\ ~(shouldReadProbes /\ shouldBroadcast)
    /\ cycleOpen => (shouldReadProbes \/ shouldBroadcast)

\* ------------------------------------------------- who writes the flags
\* loop() executed a statement in this step.
LoopRan == epc' # epc

C21_PeerAddressOnlyOnAck ==
    /\ ~gotRDPServer => rdpIPAddress = UnsetAddress
    /\ (pc = "ready" /\ lastPacket # NoPacket /\ ~IsAck(lastPacket)) =>
          rdpIPAddress = UnsetAddress

\* ------------------------------------------------------------- the epoch
\* C22: rdpEpoch never goes down, and it goes up, by one, exactly in the
\* steps that send a fixed-schema message: the SYN of setup() and a drain
\* whose temperature datagram went to the secondary destination.
C22_EpochCountsSentMessages ==
    [][ /\ rdpEpoch' >= rdpEpoch
        /\ rdpEpoch' # rdpEpoch =>
              /\ rdpEpoch' = rdpEpoch + 1
              /\ pc = "setup" \/ tick'.secondary.kind = "rdp"
        /\ (pc = "loop" /\ tick'.secondary.kind = "rdp") =>
              rdpEpoch' = rdpEpoch + 1 ]_vars

\* -------------------------------------------------------- send failures
\* C23: a drain that passed the gate and failed to send to the primary
\* destination, or to the secondary destination while gotRDPServer is true,
\* gives the error signal, whatever debugLogging is.
C23_SendFailureSignalled ==
    (/\ pc = "loop" /\ tick.called /\ ~tick.refused
     /\ \/ tick.primary.kind = "none"
        \/ gotRDPServer /\ tick.secondary.kind = "none") =>
        tick.errorFlashes > 0

\* ------------------------------------------------------ emptying the buffer
\* The buffer is empty: position 0 and not rolled over.
IsEmpty == rollingAveragePosition = 0 /\ ~indexRolledOver

\* C24: the buffer goes from non-empty to empty, and indexRolledOver goes
\* from true to false, only in a tick whose broadcastReadings() passed the
\* gate, averaged at least one slot and formatted the payloads; no read,
\* failed read, refused drain or command does it.
C24_EmptiedOnlyByDrain ==
    [][ (\/ ~IsEmpty /\ IsEmpty'
         \/ indexRolledOver /\ ~indexRolledOver') =>
            /\ pc = "loop"
            /\ tick'.called /\ ~tick'.refused /\ tick'.endOfIndex > 0 ]_vars

\* A drain of a rolled-over buffer has just emptied it.
C24_Witness ==
    /\ pc = "loop" /\ IsEmpty
    /\ tick.called /\ ~tick.refused
    /\ tick.endOfIndex = ROLLING_AVERAGE_COUNT
    /\ probeReadingErrorCount > 0

\* ----------------------------------------------- minimum and maximum
\* The least and the greatest element of a non-empty set of integers.
MinOf(S) == CHOOSE x \in S : \A y \in S : x <= y
MaxOf(S) == CHOOSE x \in S : \A y \in S : x >= y

\* C25: once a read has succeeded, minimumInternal is the least and
\* maximumInternal the greatest cold-junction temperature of the successful
\* reads so far, whatever their signs.
C25_MinMaxOfSuccessfulReads ==
    internalsRead # {} =>
        /\ minimumInternal = MinOf(internalsRead)
        /\ maximumInternal = MaxOf(internalsRead)

\* ------------------------------------------------- the range of voltages
\* lineariseTemperature has returned.
Linearised == pc = "linearise" /\ correctedTemperature # NotComputed

\* C26: lineariseTemperature returns the sentinel exactly for the summed
\* voltages above 54.886 mV; every voltage up to and including 54.886 mV is
\* converted with the one table of its range: below 0, 0 to 20.644, and
\* 20.644 to 54.886 mV.
C26_SentinelOutsideClosedRange ==
    Linearised =>
        /\ correctedTemperature.nan <=> totalVoltage > V_54_886
        /\ ~correctedTemperature.nan =>
              correctedTemperature.d =
                  IF totalVoltage < 0 THEN "-200 to 0C"
                  ELSE IF totalVoltage < V_20_644 THEN "0 to 500C"
                  ELSE "500 to 1372C"

\* ------------------------------------------- the read owed to an activation
\* C28: in the edge variant, under every interleaving, no statement of
\* loop() takes away the shouldReadProbes that switchActivated() set before
\* readProbes() was called for it, and an edge handler runs only when loop()
\* has called readProbes() since the last switchActivated().
C28_ReadBeforeNextHandler ==
    [][ /\ (LoopRan /\ readOwed /\ shouldReadProbes) => shouldReadProbes'
        /\ HandlerRan => ~readOwed ]_vars

\* --------------------------------------------- what a rolled-over buffer holds
\* The last n elements of a sequence, and the sum of a sequence.
LastOf(q, n) == SubSeq(q, Len(q) - n + 1, Len(q))
RECURSIVE SumSeq(_)
SumSeq(q) == IF q = << >> THEN 0 ELSE Head(q) + SumSeq(Tail(q))

\* C29: when the buffer has rolled over, more than N samples have been
\* stored since the last reset and the N slots hold exactly the N most
\* recent of them, each in the slot of its turn; so the drain of a
\* rolled-over buffer averages the N most recent samples.
C29_RolledOverHoldsLastN ==
    /\ [](indexRolledOver =>
            /\ Len(pushed) > ROLLING_AVERAGE_COUNT
            /\ \A j \in Len(pushed) - ROLLING_AVERAGE_COUNT + 1 .. Len(pushed) :
                  celsiusRollingAverage[(j - 1) % ROLLING_AVERAGE_COUNT]
                      = pushed[j])
    /\ [][ (indexRolledOver /\ tick'.called /\ ~tick'.refused) =>
              /\ tick'.endOfIndex = ROLLING_AVERAGE_COUNT
              /\ tick'.sum = SumSeq(LastOf(pushed, ROLLING_AVERAGE_COUNT))
          ]_vars

\* A rolled-over buffer whose oldest sample was overwritten by a different
\* one has been drained.
C29_Witness ==
    /\ tick.called /\ ~tick.refused
    /\ tick.endOfIndex = ROLLING_AVERAGE_COUNT
    /\ celsiusRollingAverage[0] # celsiusRollingAverage[1]
    /\ pushed = << >>
    /\ tick.primary # NoDatagram

\* C30: every store of readProbes() into celsiusRollingAverage uses an index
\* between 0 and N-1, after any sequence of pushes, failed reads and drains.
C30_StoreIndexInBounds ==
    tick.read = "ok" =>
        /\ tick.index >= 0
        /\ tick.index <= ROLLING_AVERAGE_COUNT - 1
        /\ tick.index \in DOMAIN celsiusRollingAverage

\* The store that follows a full buffer, after a failed read and a drain:
\* it goes to slot 0.
C30_Witness ==
    /\ tick.read = "ok" /\ tick.index = 0 /\ indexRolledOver
    /\ probeReadingErrorCount > 0
    /\ rdpEpoch > InitialEpoch + 1

\* ------------------------------------------- the samples of one cycle
\* C31: the average a drain computes is made of samples stored since the
\* most recent readProbes command only: it averages no more slots than
\* samples were stored in the current cycle, and their sum is the sum of the
\* cycle's most recent samples.
C31_AverageOfCurrentCycleOnly ==
    (pc = "loop" /\ tick.called /\ ~tick.refused) =>
        /\ tick.endOfIndex <= Len(cycleSamples)
        /\ tick.sum = SumSeq(LastOf(cycleSamples, tick.endOfIndex))

\* ------------------------------------------- the drain whose sends fail
\* C32: a drain that passed the gate leaves the buffer empty and
\* haveBroadcastSinceRead true whatever the network did, also when WiFi is
\* down or every send fails; and a drain averages no more slots than
\* samples were stored since the previous reset, so no drained sample is
\* averaged again.
C32_DrainResetsWhateverTheNetwork ==
    [][ (pc = "loop" /\ Drained') =>
          /\ IsEmpty' /\ pushesSinceReset' = 0
          /\ haveBroadcastSinceRead' /\ ~shouldBroadcast'
          /\ tick'.endOfIndex <= pushesSinceReset ]_vars

\* A drain with the secondary destination active sent nothing and signalled
\* an error; the buffer is empty and the broadcast is marked as done.
C32_Witness ==
    /\ pc = "loop" /\ Drained /\ NothingSent
    /\ gotRDPServer /\ tick.errorFlashes > 0
    /\ tick.endOfIndex >= 2
    /\ IsEmpty /\ haveBroadcastSinceRead

\* --------------------------------------------- the sentinel and the buffer
\* C33: the out-of-range sentinel (NAN) that lineariseTemperature returns is
\* never stored in the buffer: every valid slot holds a temperature.
C33_SentinelNeverStored ==
    pc = "linearise" =>
        \A i \in ValidSlots(rollingAveragePosition, indexRolledOver) :
            ~isnan(celsiusRollingAverage[i])

\* ------------------------------------------------ the handshake terminates
\* C34: whatever the peer does, the listen loop makes a bounded number of
\* passes (at most rdpMaxAckListenAttempts + 2 tests of its condition),
\* setup() returns and loop() starts; from then on gotRDPServer is fixed.
C34_HandshakeTerminates ==
    /\ <>(pc = "loop")
    /\ [](listenAttempts <= rdpMaxAckListenAttempts + 1)
    /\ [](rdpAckRetries <= rdpMaxAckListenAttempts + 1)
    /\ [][ pc = "loop" => gotRDPServer' = gotRDPServer ]_vars

\* loop() runs after a handshake in which the peer never answered.
C34_Witness ==
    /\ pc = "loop" /\ ~gotRDPServer /\ rdpIPAddress = UnsetAddress
    /\ shouldReadProbes /\ tick.read = "ok"

\* ---------------------------------------- broadcast before any further read
\* C35: when loop() receives a broadcastReadings command while the buffer
\* holds a sample, probeReadingError is false and haveBroadcastSinceRead is
\* false, that same iteration calls broadcastReadings(), which passes its
\* gate and averages the stored samples, no sensor read takes place in the
\* iteration, and with WiFi connected and the primary packet set up and ended
\* successfully the primary datagram is sent.
C35_BroadcastBeforeFurtherRead ==
    (pc = "loop" /\ ~IsEmpty /\ ~probeReadingError /\ ~haveBroadcastSinceRead) =>
        \A net \in NetOutcomes, r \in ProbeReadings :
            \E g \in {loop(Globals, BroadcastRequest, net, r)} :
                /\ g.tick.called /\ ~g.tick.refused
                /\ g.tick.endOfIndex > 0
                /\ g.tick.read = "none"
                /\ (net.wifi /\ net.brdBegin /\ net.brdEnd) =>
                       /\ g.tick.primary # NoDatagram
                       /\ g.tick.primary.kind = "broadcast"

\* ------------------------------------------ the trigger node before an edge
\* C36: until the first edge interrupt has run, the trigger node's loop()
\* has transmitted no control message, neither readProbes nor
\* broadcastReadings.
C36_NoCommandBeforeFirstEdge ==
    ~everTriggered => transmitted = << >>
====
